---- MODULE Spec2Model ----
(***************************************************************************)
(* State-machine model of hacking/test-module.py: the module test harness  *)
(* that normalises an argument string, packages a module through           *)
(* module_common.modify_module, optionally explodes an AnsiBallZ wrapper,  *)
(* runs the module as a child process and reports its JSON output.         *)
(*                                                                         *)
(* Strings are sequences of tokens, paths are records [dir, stem, ext],    *)
(* dictionaries are functions over a set of keys.  Python values are       *)
(* written as strings ("True" is the Python value True).                   *)
(***************************************************************************)
EXTENDS Integers, Sequences, FiniteSets, TLC

VARIABLES
    args,            \* -a: raw argument string (sequence of tokens)
    check,           \* -c
    execute,         \* -n clears it
    debugger,        \* -D given
    interpreters,    \* module_common.get_interpreters(args.interpreter)
    pc,              \* pipeline state
    phase,           \* "main" | "finally" | "exited"
    complex_args,    \* the argument bundle under construction
    transform_args,  \* bundles handed to module_common.modify_module
    reported_style,  \* style tag returned by modify_module
    module_style,    \* style tag after classification
    module_data,     \* payload returned by modify_module
    destfile,        \* file at the expanded destination path: <<>> or <<bytes>>
    destfile0,       \* that file as it was when the harness started
    modfile,         \* path of the file that will be run
    children,        \* child processes spawned so far
    explode_out,     \* stdout of the explode child
    explode_err,     \* stderr of the explode child
    debug_tree,      \* os.walk listing under the debug directory
    run_out,         \* stdout of the module child
    run_rc,          \* exit status of the module child
    printed,         \* lines the harness wrote to its stdout, one per print()
    results,         \* <<>> or <<parsed value>>
    exc,             \* exception in flight when main ended ("none" if it returned)
    exc_status,      \* exit status that outcome of main stands for
    rmtree_calls,    \* calls of shutil.rmtree made
    exit_status      \* status of the harness process once it has exited

vars == <<args, check, execute, debugger, interpreters, pc, phase, complex_args,
          transform_args, reported_style, module_style, module_data, destfile,
          destfile0, modfile, children, explode_out, explode_err, debug_tree, run_out,
          run_rc, printed, results, exc, exc_status, rmtree_calls, exit_status>>

(***************************************************************************)
(* Bounds of the model.                                                    *)
(***************************************************************************)
MaxArgTokens == 1    \* key=value tokens in the raw argument string
MaxExplodeOut == 4   \* characters of the explode child's stdout
MaxRunOut == 3       \* characters of the module child's stdout

SeqsUpTo(S, n) == UNION { [1..k -> S] : k \in 0..n }

(***************************************************************************)
(* Names bound in the module's global namespace: the imports and the       *)
(* top-level functions.  A name outside this set raises NameError when it  *)
(* is looked up.                                                           *)
(***************************************************************************)
ModuleGlobals ==
    { "absolute_import", "division", "print_function",
      "argparse", "json", "os", "subprocess", "sys", "traceback",
      "to_text", "DataLoader", "init_plugin_loader", "Templar",
      "__version__", "module_common", "C",
      "parse", "boilerplate_module", "runtest", "ansiballz_setup", "main" }

Bound(name) == name \in ModuleGlobals

(***************************************************************************)
(* Text helpers.                                                           *)
(***************************************************************************)
\* Python's `needle in haystack` on strings: needle occurs as a contiguous run
Contains(needle, hay) ==
    \E i \in 1..(Len(hay) - Len(needle) + 1) :
        SubSeq(hay, i, i + Len(needle) - 1) = needle

\* to_text(): bytes decoded as UTF-8; a byte that is not UTF-8 becomes a
\* surrogate escape, every other token is unchanged
DecodeToken(b) == IF b = "\\xff" THEN "\\udcff" ELSE b
to_text(data) == [i \in 1..Len(data) |-> DecodeToken(data[i])]

(***************************************************************************)
(* Command line (parse): the values main() reads from argparse.            *)
(***************************************************************************)
At == [k |-> "@", v |-> ""]
Brace == [k |-> "{", v |-> ""]
KeyValues ==
    { [k |-> "name", v |-> "foo"],
      [k |-> "_ansible_tmpdir", v |-> "/caller/tmp"],
      [k |-> "_ansible_check_mode", v |-> "False"] }

\* -a: '' (the default), key=value tokens, a '{' document or an '@' file
ArgStrings ==
    LET bodies == SeqsUpTo(KeyValues, MaxArgTokens)
    IN  bodies
        \cup { <<At>> \o b : b \in bodies \ {<<>>} }
        \cup { <<Brace>> \o b : b \in bodies \ {<<>>} }

\* -I: the interpreter map, with or without ansible_python_interpreter
InterpreterMaps ==
    { [n \in D |-> "/usr/bin/python"] : D \in SUBSET {"ansible_python_interpreter"} }

\* -m and -o
ModulePath == [dir |-> "/tmp", stem |-> "ping", ext |-> ".py"]
DestFile == [dir |-> "~", stem |-> ".ansible_module_generated", ext |-> ""]
NoPath == [dir |-> "", stem |-> "", ext |-> ""]

\* os.path.expanduser: a leading ~ becomes the home directory
expanduser(p) == IF p.dir = "~" THEN [p EXCEPT !.dir = "/home/user"] ELSE p
\* os.path.splitext(os.path.basename(p))[0]
ModName(p) == p.stem
\* os.path.join(dirname, filename)
join(dirname, f) == [dir |-> dirname, stem |-> f.stem, ext |-> f.ext]

(***************************************************************************)
(* Argument bundle (boilerplate_module, lines 81-103).                     *)
(***************************************************************************)
EmptyDict == [x \in {} |-> ""]
SetKey(d, key, val) ==
    [x \in (DOMAIN d) \cup {key} |-> IF x = key THEN val ELSE d[x]]

\* lines 82-87: the four reserved keys
ReservedDefaults ==
    SetKey(SetKey(SetKey(SetKey(EmptyDict,
        "_ansible_selinux_special_fs", "C.DEFAULT_SELINUX_SPECIAL_FS"),
        "_ansible_tmpdir", "C.DEFAULT_LOCAL_TMP"),
        "_ansible_keep_remote_files", "C.DEFAULT_KEEP_REMOTE_FILES"),
        "_ansible_version", "__version__")

\* utils_vars.combine_vars: the right operand wins on a shared key
combine_vars(a, b) ==
    [x \in (DOMAIN a) \cup (DOMAIN b) |-> IF x \in DOMAIN b THEN b[x] ELSE a[x]]

\* parse_kv / DataLoader.load / load_from_file: the dictionary a token list
\* denotes, a later token overwriting an earlier one with the same key
RECURSIVE KvDict(_)
KvDict(toks) ==
    IF toks = <<>> THEN EmptyDict
    ELSE LET n == Len(toks)
         IN  SetKey(KvDict(SubSeq(toks, 1, n - 1)), toks[n].k, toks[n].v)

startswith(a, c) == Len(a) > 0 /\ a[1] = c

\* lines 89-98: the bundle after the caller's arguments are merged, or the
\* exception raised on the way.  The callee expression utils_vars.combine_vars
\* is evaluated before its arguments, so an unbound utils_vars raises before
\* the loader or the merge runs.
MergeArgs(a) ==
    LET loaded == startswith(a, At) \/ startswith(a, Brace)
        rest == IF loaded THEN <<>> ELSE a
    IN  IF loaded /\ ~Bound("utils_vars")
            THEN [err |-> "NameError", bundle |-> ReservedDefaults]
        ELSE IF rest # <<>> /\ ~Bound("utils_vars")
            THEN [err |-> "NameError", bundle |-> ReservedDefaults]
        ELSE [err |-> "none",
              bundle |->
                combine_vars(
                    IF loaded THEN combine_vars(ReservedDefaults, KvDict(Tail(a)))
                              ELSE ReservedDefaults,
                    KvDict(rest))]

\* lines 102-103
SetCheckMode(bundle, chk) ==
    IF chk THEN SetKey(bundle, "_ansible_check_mode", "True") ELSE bundle

(***************************************************************************)
(* Packaging (boilerplate_module, lines 105-125).                          *)
(***************************************************************************)
\* '_ANSIBALLZ_WRAPPER = True'
WrapperMarker == <<"_ANSIBALLZ_WRAPPER", " = True">>

\* what module_common.modify_module can return
ReportedStyles == {"old", "new", "non_native_want_json", "binary"}
Payloads ==
    { <<"pass">>,
      <<"_ANSIBALLZ_WRAPPER", " = True">>,
      <<" = True", "_ANSIBALLZ_WRAPPER">>,
      <<"\\xff", "_ANSIBALLZ_WRAPPER", " = True", "pass">> }

\* Classify with the marker test lost: every 'new' payload becomes bundled
Classify_NoMarkerTest(style, data) ==
    IF style = "new" THEN "ansiballz" ELSE style

\* lines 115-116
Classify(style, data) ==
    IF style = "new" /\ Contains(WrapperMarker, to_text(data))
        THEN "ansiballz"
        ELSE style

\* lines 119-121: the notes printed before the write
PackageNotes(style) ==
    << <<"* including generated source, if any, saving to:">> >>
    \o (IF style \notin {"ansiballz", "old"}
            THEN << <<"* this may offset any line numbers in tracebacks/debuggers!">> >>
            ELSE <<>>)

(***************************************************************************)
(* Explode protocol (ansiballz_setup, lines 186-202).                      *)
(***************************************************************************)
ExplodeChars == {"\n", "\r", "Module expanded into", "/debug_dir"}
ExpandedMarker == <<"Module expanded into">>
LineBreaks == {"\n", "\r"}

\* str.splitlines(): "\n", "\r" and "\r\n" end a line; no empty last line
RECURSIVE SplitFrom(_, _, _, _)
SplitFrom(s, i, cur, acc) ==
    IF i > Len(s)
        THEN IF cur = <<>> THEN acc ELSE Append(acc, cur)
    ELSE IF s[i] = "\r" /\ i < Len(s) /\ s[i + 1] = "\n"
        THEN SplitFrom(s, i + 2, <<>>, Append(acc, cur))
    ELSE IF s[i] \in LineBreaks
        THEN SplitFrom(s, i + 1, <<>>, Append(acc, cur))
    ELSE SplitFrom(s, i + 1, Append(cur, s[i]), acc)

splitlines(s) == SplitFrom(s, 1, <<>>, <<>>)

\* ProtocolViolation with the line count tested as "fewer than two"
ProtocolViolation_AtLeastTwo(out) ==
    LET lines == splitlines(out)
    IN  Len(lines) < 2 \/ ~Contains(ExpandedMarker, lines[1])

\* line 187
ProtocolViolation(out) ==
    LET lines == splitlines(out)
    IN  Len(lines) # 2 \/ ~Contains(ExpandedMarker, lines[1])

\* sys.exit(arg) with a string argument: the string goes to stderr and the
\* status is 1, also for the empty string
SysExitStatusOfText(err) == 1

\* the listing os.walk gives for core_dirs + collection_dirs, in order
PingPy == [stem |-> "ping", ext |-> ".py"]
OtherPy == [stem |-> "other", ext |-> ".py"]
CoreDir == "ansible/modules"
CoreSubDir == "ansible/modules/system"
CollDir == "ansible_collections/ns/col/plugins/modules"
WalkEntry(d, fs) == [dirname |-> d, filenames |-> fs]
DebugTrees ==
    { <<>>,
      <<WalkEntry(CoreDir, {PingPy})>>,
      <<WalkEntry(CoreDir, {PingPy}), WalkEntry(CollDir, {PingPy, OtherPy})>>,
      <<WalkEntry(CoreDir, {OtherPy}), WalkEntry(CoreSubDir, {PingPy}),
        WalkEntry(CollDir, {PingPy})>>,
      <<WalkEntry(CollDir, {OtherPy})>> }

\* lines 197-202: every directory of every tree is visited; the break leaves
\* only the loop over one directory's file names, so a later directory that
\* holds the file assigns modfile again
RECURSIVE WalkFrom(_, _, _, _)
WalkFrom(tree, i, modname, cur) ==
    IF i > Len(tree) THEN cur
    ELSE LET f == [stem |-> modname, ext |-> ".py"]
         IN  WalkFrom(tree, i + 1, modname,
                      IF f \in tree[i].filenames
                          THEN join(tree[i].dirname, f)
                          ELSE cur)

FindModule(tree, modname, staged) == WalkFrom(tree, 1, modname, staged)

(***************************************************************************)
(* JSON (runtest, line 154): json.loads on the module's stdout.            *)
(***************************************************************************)
JsonChars == {"[", "]", ",", "1", " "}

RECURSIVE SkipWs(_, _)
SkipWs(s, i) == IF i <= Len(s) /\ s[i] = " " THEN SkipWs(s, i + 1) ELSE i

RECURSIVE EndOfDigits(_, _)
EndOfDigits(s, i) ==
    IF i <= Len(s) /\ s[i] = "1" THEN EndOfDigits(s, i + 1) ELSE i

JsonFail == [ok |-> FALSE, next |-> 0, val |-> <<>>]

\* the value is kept as its text without insignificant whitespace
RECURSIVE ParseValue(_, _), ParseElems(_, _, _)
ParseValue(s, i) ==
    IF i > Len(s) THEN JsonFail
    ELSE IF s[i] = "1"
        THEN LET j == EndOfDigits(s, i)
             IN  [ok |-> TRUE, next |-> j, val |-> SubSeq(s, i, j - 1)]
    ELSE IF s[i] = "["
        THEN LET k == SkipWs(s, i + 1)
             IN  IF k <= Len(s) /\ s[k] = "]"
                     THEN [ok |-> TRUE, next |-> k + 1, val |-> <<"[", "]">>]
                     ELSE ParseElems(s, k, <<"[">>)
    ELSE JsonFail
ParseElems(s, i, acc) ==
    LET r == ParseValue(s, i)
        k == SkipWs(s, r.next)
    IN  IF ~r.ok \/ k > Len(s) THEN JsonFail
        ELSE IF s[k] = ","
            THEN ParseElems(s, SkipWs(s, k + 1), acc \o r.val \o <<",">>)
        ELSE IF s[k] = "]"
            THEN [ok |-> TRUE, next |-> k + 1, val |-> acc \o r.val \o <<"]">>]
        ELSE JsonFail

\* json.loads: one value, whitespace around it, nothing else
json_loads(s) ==
    LET r == ParseValue(s, SkipWs(s, 1))
    IN  IF r.ok /\ SkipWs(s, r.next) > Len(s)
            THEN [ok |-> TRUE, val |-> r.val]
            ELSE [ok |-> FALSE, val |-> <<>>]

\* json.dumps(value, indent=4, sort_keys=True): one element per line, four
\* spaces for each level of nesting; an empty list stays "[]"
Indent(depth) == [i \in 1..depth |-> "    "]
RECURSIVE DumpFrom(_, _, _)
DumpFrom(v, i, depth) ==
    IF i > Len(v) THEN <<>>
    ELSE IF v[i] = "[" /\ i < Len(v) /\ v[i + 1] = "]"
        THEN <<"[", "]">> \o DumpFrom(v, i + 2, depth)
    ELSE IF v[i] = "["
        THEN <<"[", "\n">> \o Indent(depth + 1) \o DumpFrom(v, i + 1, depth + 1)
    ELSE IF v[i] = ","
        THEN <<",", "\n">> \o Indent(depth) \o DumpFrom(v, i + 1, depth)
    ELSE IF v[i] = "]"
        THEN <<"\n">> \o Indent(depth - 1) \o <<"]">> \o DumpFrom(v, i + 1, depth - 1)
    ELSE <<v[i]>> \o DumpFrom(v, i + 1, depth)

json_dumps(v) == DumpFrom(v, 1, 0)

Stars == <<"***********************************">>

(***************************************************************************)
(* The harness process.                                                    *)
(***************************************************************************)
Init ==
    /\ args \in ArgStrings
    /\ check \in BOOLEAN
    /\ execute \in BOOLEAN
    /\ debugger \in BOOLEAN
    /\ interpreters \in InterpreterMaps
    /\ destfile \in { <<>>, << <<"previous">> >> }
    /\ destfile0 = destfile
    /\ pc = "Start"
    /\ phase = "main"
    /\ complex_args = EmptyDict
    /\ transform_args = <<>>
    /\ reported_style = ""
    /\ module_style = ""
    /\ module_data = <<>>
    /\ modfile = NoPath
    /\ children = <<>>
    /\ explode_out = <<>>
    /\ explode_err = <<>>
    /\ debug_tree = <<>>
    /\ run_out = <<>>
    /\ run_rc = 0
    /\ printed = <<>>
    /\ results = <<>>
    /\ exc = "none"
    /\ exc_status = 0
    /\ rmtree_calls = 0
    /\ exit_status = -1

cli == <<args, check, execute, debugger, interpreters, destfile0>>
packaging == <<reported_style, module_style, module_data, destfile>>
exploding == <<explode_out, explode_err, debug_tree>>
running == <<run_out, run_rc, results>>
ending == <<rmtree_calls, exit_status>>

\* an exception leaves main(): an uncaught exception other than SystemExit
\* makes the interpreter exit with status 1
Raise(kind, status) ==
    /\ pc' = "Aborted"
    /\ phase' = "finally"
    /\ exc' = kind
    /\ exc_status' = status

\* boilerplate_module, lines 81-103
Normalize ==
    /\ phase = "main"
    /\ pc = "Start"
    /\ LET m == MergeArgs(args)
       IN  IF m.err # "none"
               THEN /\ complex_args' = m.bundle
                    /\ Raise(m.err, 1)
               ELSE /\ complex_args' = SetCheckMode(m.bundle, check)
                    /\ pc' = "ArgsNormalized"
                    /\ UNCHANGED <<phase, exc, exc_status>>
    /\ UNCHANGED <<cli, packaging, exploding, running, ending, transform_args,
                   modfile, children, printed>>

\* Package with the destination opened for writing before the transformation
\* runs: a failing transformation leaves a truncated file behind
Package_OpenBeforeTransform ==
    /\ phase = "main"
    /\ pc = "ArgsNormalized"
    /\ transform_args' = Append(transform_args, complex_args)
    /\ \/ /\ Raise("TransformError", 1)
          /\ destfile' = << <<>> >>
          /\ UNCHANGED <<reported_style, module_style, module_data, modfile, printed>>
       \/ \E data \in Payloads, style \in ReportedStyles :
            /\ reported_style' = style
            /\ module_data' = data
            /\ module_style' = Classify(style, data)
            /\ printed' = printed \o PackageNotes(Classify(style, data))
            /\ destfile' = <<data>>
            /\ modfile' = expanduser(DestFile)
            /\ pc' = "Packaged"
            /\ UNCHANGED <<phase, exc, exc_status>>
    /\ UNCHANGED <<cli, exploding, running, ending, complex_args, children>>

\* boilerplate_module, lines 105-125
Package ==
    /\ phase = "main"
    /\ pc = "ArgsNormalized"
    /\ transform_args' = Append(transform_args, complex_args)
    /\ \/ /\ Raise("TransformError", 1)
          /\ UNCHANGED <<packaging, modfile, printed>>
       \/ \E data \in Payloads, style \in ReportedStyles :
            /\ reported_style' = style
            /\ module_data' = data
            /\ module_style' = Classify(style, data)
            /\ printed' = printed \o PackageNotes(Classify(style, data))
            /\ \/ \* line 122: open() itself fails, the file is as it was
                  /\ Raise("OSError", 1)
                  /\ UNCHANGED <<destfile, modfile>>
               \/ \* line 122 truncated or created the file, then the write,
                  \* flush or close of line 123 fails: the file holds the
                  \* part of the payload that reached it, possibly nothing
                  \E n \in 0..(Len(data) - 1) :
                    /\ destfile' = << SubSeq(data, 1, n) >>
                    /\ Raise("OSError", 1)
                    /\ UNCHANGED modfile
               \/ \* lines 122-125: written and returned
                  /\ destfile' = <<data>>
                  /\ modfile' = expanduser(DestFile)
                  /\ pc' = "Packaged"
                  /\ UNCHANGED <<phase, exc, exc_status>>
    /\ UNCHANGED <<cli, exploding, running, ending, complex_args, children>>

\* main, line 217: -n was given, main returns
NoExecute ==
    /\ phase = "main"
    /\ pc = "Packaged"
    /\ ~execute
    /\ phase' = "finally"
    /\ UNCHANGED <<cli, packaging, exploding, running, ending, pc, complex_args,
                   transform_args, modfile, children, printed, exc, exc_status>>

\* main, lines 218-219: rundebug is looked up in the module's globals
RunDebug ==
    /\ phase = "main"
    /\ pc = "Packaged"
    /\ execute
    /\ debugger
    /\ ~Bound("rundebug")
    /\ Raise("NameError", 1)
    /\ UNCHANGED <<cli, packaging, exploding, running, ending, complex_args,
                   transform_args, modfile, children, printed>>

\* the interpreter prefix of lines 139-140 and 177-180
InterpreterPrefix ==
    IF "ansible_python_interpreter" \in DOMAIN interpreters
        THEN <<interpreters["ansible_python_interpreter"]>>
        ELSE <<>>

\* runtest lines 137-138 with ansiballz_setup, lines 175-207
Unwrap ==
    /\ phase = "main"
    /\ pc = "Packaged"
    /\ execute
    /\ ~debugger
    /\ module_style = "ansiballz"
    /\ children' = Append(children,
            [prefix |-> InterpreterPrefix, file |-> modfile,
             instr |-> "explode", shell |-> FALSE])
    /\ \E out \in SeqsUpTo(ExplodeChars, MaxExplodeOut),
          err \in { <<>>, <<"Traceback">> },
          tree \in DebugTrees :
            /\ explode_out' = to_text(out)
            /\ explode_err' = to_text(err)
            /\ IF ProtocolViolation(to_text(out))
                   THEN /\ printed' = printed \o
                            << Stars,
                               <<"INVALID OUTPUT FROM ANSIBALLZ MODULE WRAPPER">>,
                               to_text(out) >>
                        /\ Raise("SystemExit", SysExitStatusOfText(to_text(err)))
                        /\ UNCHANGED <<debug_tree, modfile>>
               ELSE /\ debug_tree' = tree
                    /\ IF ~Bound("glob")
                           THEN /\ Raise("NameError", 1)
                                /\ UNCHANGED <<modfile, printed>>
                           ELSE /\ modfile' = FindModule(tree, ModName(ModulePath), modfile)
                                /\ printed' = Append(printed,
                                     <<"* ansiballz module detected; extracted module source to:">>)
                                /\ pc' = "Unwrapped"
                                /\ UNCHANGED <<phase, exc, exc_status>>
    /\ UNCHANGED <<cli, packaging, running, ending, complex_args, transform_args>>

\* runtest, lines 142-143: chmod and the command line
Stage ==
    /\ phase = "main"
    /\ \/ pc = "Packaged" /\ execute /\ ~debugger /\ module_style # "ansiballz"
       \/ pc = "Unwrapped"
    /\ pc' = "Staged"
    /\ UNCHANGED <<cli, packaging, exploding, running, ending, phase, complex_args,
                   transform_args, modfile, children, printed, exc, exc_status>>

\* runtest, lines 145-147: the module child runs to completion; its exit
\* status is never read
Execute ==
    /\ phase = "main"
    /\ pc = "Staged"
    /\ children' = Append(children,
            [prefix |-> IF module_style = "ansiballz" THEN InterpreterPrefix ELSE <<>>,
             file |-> modfile, instr |-> "", shell |-> TRUE])
    /\ \E out \in SeqsUpTo(JsonChars, MaxRunOut), rc \in {0, 1} :
            /\ run_out' = to_text(out)
            /\ run_rc' = rc
    /\ pc' = "Executed"
    /\ UNCHANGED <<cli, packaging, exploding, ending, phase, complex_args,
                   transform_args, modfile, printed, results, exc, exc_status>>

\* Report with the decode failure swallowed: the banner of a parsed result
\* is printed although nothing was parsed
Report_DecodeErrorSwallowed ==
    /\ phase = "main"
    /\ pc = "Executed"
    /\ LET raw == << Stars, <<"RAW OUTPUT">>, run_out, <<"<stderr>">> >>
           r == json_loads(run_out)
       IN  /\ results' = << r.val >>
           /\ printed' = printed \o raw \o
                   << Stars, <<"PARSED OUTPUT">>, json_dumps(r.val) >>
           /\ pc' = "Reported"
           /\ phase' = "finally"
           /\ UNCHANGED <<exc, exc_status>>
    /\ UNCHANGED <<cli, packaging, exploding, ending, run_out, run_rc,
                   complex_args, transform_args, modfile, children>>

\* Report with a retry: output that does not decode sends the run back to
\* the staged module instead of ending it
Report_RetryOnBadOutput ==
    /\ phase = "main"
    /\ pc = "Executed"
    /\ LET raw == << Stars, <<"RAW OUTPUT">>, run_out, <<"<stderr>">> >>
           r == json_loads(run_out)
       IN  IF r.ok
               THEN /\ results' = << r.val >>
                    /\ printed' = printed \o raw \o
                            << Stars, <<"PARSED OUTPUT">>, json_dumps(r.val) >>
                    /\ pc' = "Reported"
                    /\ phase' = "finally"
                    /\ UNCHANGED <<exc, exc_status>>
               ELSE /\ printed' = printed \o raw \o
                            << Stars, <<"INVALID OUTPUT FORMAT">>, run_out >>
                    /\ pc' = "Staged"
                    /\ UNCHANGED <<results, phase, exc, exc_status>>
    /\ UNCHANGED <<cli, packaging, exploding, ending, run_out, run_rc,
                   complex_args, transform_args, modfile, children>>

\* runtest, lines 149-164.  traceback.print_exc() at line 159 writes to
\* stderr, so it adds nothing to the lines printed on stdout.
Report ==
    /\ phase = "main"
    /\ pc = "Executed"
    /\ LET raw == << Stars, <<"RAW OUTPUT">>, run_out, <<"<stderr>">> >>
           r == json_loads(run_out)
       IN  IF r.ok
               THEN /\ results' = << r.val >>
                    /\ printed' = printed \o raw \o
                            << Stars, <<"PARSED OUTPUT">>, json_dumps(r.val) >>
                    /\ pc' = "Reported"
                    /\ phase' = "finally"
                    /\ UNCHANGED <<exc, exc_status>>
               ELSE /\ printed' = printed \o raw \o
                            << Stars, <<"INVALID OUTPUT FORMAT">>, run_out >>
                    /\ Raise("SystemExit", 1)
                    /\ UNCHANGED results
    /\ UNCHANGED <<cli, packaging, exploding, ending, run_out, run_rc,
                   complex_args, transform_args, modfile, children>>

\* __main__, lines 227-228: the finally clause.  shutil is looked up first;
\* a NameError raised here replaces whatever main() ended with.
Cleanup ==
    /\ phase = "finally"
    /\ phase' = "exited"
    /\ IF Bound("shutil")
           THEN /\ rmtree_calls' = rmtree_calls + 1
                /\ exit_status' = exc_status
                /\ UNCHANGED exc
           ELSE /\ exc' = "NameError"
                /\ exit_status' = 1
                /\ UNCHANGED rmtree_calls
    /\ UNCHANGED <<cli, packaging, exploding, running, pc, complex_args,
                   transform_args, modfile, children, printed, exc_status>>

Next ==
    \/ Normalize
    \/ Package
    \/ NoExecute
    \/ RunDebug
    \/ Unwrap
    \/ Stage
    \/ Execute
    \/ Report
    \/ Cleanup

Spec == Init /\ [][Next]_vars

(***************************************************************************)
(* Vocabulary of the properties.                                           *)
(***************************************************************************)
ReservedKeys == DOMAIN ReservedDefaults
CheckKey == "_ansible_check_mode"

\* what the caller wrote in the raw argument string, whatever its form
CallerDict ==
    IF startswith(args, At) \/ startswith(args, Brace)
        THEN KvDict(Tail(args))
        ELSE KvDict(args)

HasMarker == Contains(WrapperMarker, to_text(module_data))
Classified == reported_style # ""

ExplodeRan == \E i \in DOMAIN children : children[i].instr = "explode"
ModuleRan == \E i \in DOMAIN children : children[i].instr = ""
ExplodeLines == splitlines(explode_out)
ExplodeRejected ==
    Len(ExplodeLines) # 2 \/ ~Contains(ExpandedMarker, ExplodeLines[1])

\* directories of the walk that hold <modname>.py, in walk order
MatchingDirs ==
    SelectSeq(debug_tree, LAMBDA e : PingPy \in e.filenames)

Rank(p) ==
    CASE p = "Start" -> 0
      [] p = "ArgsNormalized" -> 1
      [] p = "Packaged" -> 2
      [] p = "Unwrapped" -> 3
      [] p = "Staged" -> 4
      [] p = "Executed" -> 5
      [] p = "Reported" -> 6
      [] p = "Aborted" -> 6
PhaseRank(p) ==
    CASE p = "main" -> 0
      [] p = "finally" -> 1
      [] p = "exited" -> 2

(***************************************************************************)
(* C1.  Style classification.                                              *)
(***************************************************************************)
\* C1 as stated: once the payload is classified, a payload that contains
\* the wrapper marker is bundled whatever style was reported, and a payload
\* without the marker keeps the reported style.
C1_MarkerAlwaysBundled ==
    Classified =>
        /\ HasMarker => module_style = "ansiballz"
        /\ ~HasMarker => module_style = reported_style

\* C1 amended: the marker turns the style into bundled only when the
\* reported style is 'new'; in every other case (another reported style, or
\* no marker) the final style is the reported style.
C1_MarkerOverridesNewOnly ==
    Classified =>
        /\ (reported_style = "new" /\ HasMarker) => module_style = "ansiballz"
        /\ (reported_style # "new" \/ ~HasMarker) => module_style = reported_style

C1_Witness ==
    /\ pc = "Packaged"
    /\ reported_style = "new"
    /\ HasMarker
    /\ module_style = "ansiballz"

(***************************************************************************)
(* C2.  Explode protocol violations.                                       *)
(***************************************************************************)
\* C2: when the explode child's output is not exactly two lines, or its
\* first line lacks 'Module expanded into', the harness prints the banner
\* and the raw output, ends with SystemExit and a non-zero status whatever
\* the child's stderr held, exits non-zero, and never starts the module
\* child.
C2_ExplodeViolationAborts ==
    (ExplodeRan /\ ExplodeRejected) =>
        /\ pc = "Aborted"
        /\ Len(printed) >= 3
        /\ printed[Len(printed)] = explode_out
        /\ printed[Len(printed) - 1] = <<"INVALID OUTPUT FROM ANSIBALLZ MODULE WRAPPER">>
        /\ exc_status # 0
        /\ phase = "finally" => exc = "SystemExit"
        /\ phase = "exited" => exit_status # 0
        /\ ~ModuleRan

C2_Witness ==
    /\ ExplodeRan
    /\ Len(ExplodeLines) = 2
    /\ ~Contains(ExpandedMarker, ExplodeLines[1])
    /\ explode_err = <<>>
    /\ phase = "exited"
    /\ exit_status # 0

(***************************************************************************)
(* C3.  Module output that is not JSON.                                    *)
(***************************************************************************)
\* C3: once the module child's output has been handled, output that is not
\* a JSON document has produced no parsed result and no 'PARSED OUTPUT'
\* banner, and the run is aborted with a non-zero status, for every style
\* and every exit status of the child.
C3_InvalidJsonNeverParsed ==
    (ModuleRan /\ pc # "Executed" /\ ~json_loads(run_out).ok) =>
        /\ pc = "Aborted"
        /\ results = <<>>
        /\ \A i \in DOMAIN printed : printed[i] # <<"PARSED OUTPUT">>
        /\ exc_status # 0
        /\ phase = "exited" => exit_status # 0

C3_Witness ==
    /\ ModuleRan
    /\ ~json_loads(run_out).ok
    /\ run_out # <<>>
    /\ run_rc = 0
    /\ phase = "exited"
    /\ exit_status # 0

(***************************************************************************)
(* C4.  The successful run.                                                *)
(***************************************************************************)
\* C4: a run whose module child wrote a JSON document and exited zero ends
\* Reported with the value that document encodes, and the harness exits
\* with status 0.
C4_ValidJsonExitsZero ==
    (phase = "exited" /\ ModuleRan /\ json_loads(run_out).ok /\ run_rc = 0) =>
        /\ pc = "Reported"
        /\ results = << json_loads(run_out).val >>
        /\ exit_status = 0

(***************************************************************************)
(* C5.  Search for the module under the debug directory.                   *)
(***************************************************************************)
\* C5: when the explode output is accepted and more than one directory of
\* the walk holds <modname>.py, the module file ansiballz_setup ends with is
\* the one in the first such directory.
C5_FirstMatchWins ==
    (ExplodeRan /\ ~ExplodeRejected /\ Len(MatchingDirs) > 1) =>
        modfile = join(MatchingDirs[1].dirname, PingPy)

(***************************************************************************)
(* C6.  Check mode.                                                        *)
(***************************************************************************)
\* C6: for every raw argument string the harness hands the transformation
\* a final bundle; with check mode on the bundle holds the check-mode key
\* set to True, with check mode off the key is there only as the caller
\* wrote it.
C6_CheckModeKeyInFinalBundle ==
    phase = "exited" =>
        /\ Len(transform_args) = 1
        /\ check =>
            /\ CheckKey \in DOMAIN transform_args[1]
            /\ transform_args[1][CheckKey] = "True"
        /\ ~check =>
            (CheckKey \in DOMAIN transform_args[1] =>
                /\ CheckKey \in DOMAIN CallerDict
                /\ transform_args[1][CheckKey] = CallerDict[CheckKey])

(***************************************************************************)
(* C7.  Reserved keys.                                                     *)
(***************************************************************************)
\* C7: for every raw argument string, once boilerplate_module is past the
\* merge the bundle holds the four reserved keys, each with the caller's
\* value if the caller wrote that key and the default otherwise.
C7_ReservedKeysCallerWins ==
    pc # "Start" =>
        /\ ~(pc = "Aborted" /\ transform_args = <<>>)
        /\ \A key \in ReservedKeys :
            /\ key \in DOMAIN complex_args
            /\ complex_args[key] =
                 IF key \in DOMAIN CallerDict THEN CallerDict[key]
                                              ELSE ReservedDefaults[key]

(***************************************************************************)
(* C8.  The pipeline is one-way.                                           *)
(***************************************************************************)
\* C8: every step moves the pipeline forward (no state is entered twice, no
\* step is repeated, Reported and Aborted are final), Unwrapped is entered
\* only for the bundled style and Staged directly after Packaged only for
\* the other styles, a failing step goes straight to Aborted with a
\* non-zero status, nothing of the pipeline runs after that, and a run that
\* was asked to execute ends in Reported or Aborted.
C8_PipelineOneWay ==
    [][ /\ pc' # pc \/ phase' # phase
        /\ pc' # pc => Rank(pc') > Rank(pc)
        /\ PhaseRank(phase') >= PhaseRank(phase)
        /\ pc \in {"Reported", "Aborted"} => pc' = pc
        /\ pc' = "Unwrapped" => module_style' = "ansiballz"
        /\ (pc = "Packaged" /\ pc' = "Staged") => module_style # "ansiballz"
        /\ (pc' = "Aborted" /\ pc # "Aborted") =>
                (exc' # "none" /\ exc_status' # 0 /\ phase' = "finally")
        /\ pc = "Aborted" =>
                /\ children' = children
                /\ destfile' = destfile
                /\ transform_args' = transform_args
                /\ printed' = printed
                /\ results' = results
        /\ (phase' = "exited" /\ pc' = "Aborted") => exit_status' # 0
        /\ (phase' = "exited" /\ execute) => pc' \in {"Reported", "Aborted"}
      ]_vars

C8_Witness ==
    /\ pc = "Aborted"
    /\ phase = "exited"
    /\ ModuleRan
    /\ exit_status # 0

(***************************************************************************)
(* C9.  Cleanup on exit.                                                   *)
(***************************************************************************)
\* C9: when the harness has exited, shutil.rmtree was called exactly once
\* and the exit status is the one main() ended with.
C9_CleanupOnceStatusKept ==
    phase = "exited" =>
        /\ rmtree_calls = 1
        /\ exit_status = exc_status

(***************************************************************************)
(* C10.  The destination file is written only after the transformation.    *)
(***************************************************************************)
\* C10: while the transformation has not returned a payload, the file at
\* the destination is as it was before the run; and if normalisation or
\* the transformation raised, the run is aborted with that file untouched
\* and no child process spawned.
C10_WriteOnlyAfterTransform ==
    ~Classified =>
        /\ destfile = destfile0
        /\ children = <<>>
        /\ pc \in {"Start", "ArgsNormalized", "Aborted"}

C10_Witness ==
    /\ pc = "Aborted"
    /\ Len(transform_args) = 1
    /\ ~Classified
    /\ destfile0 = << <<"previous">> >>
    /\ destfile = destfile0

====
